---- MODULE Spec2Model ----
(***************************************************************************)
(* Model of sample_mcp_service/server.py: the pydantic input models, the   *)
(* four tools registered on the FastMCP object (health, get_weather,       *)
(* get_air_quality, get_tool_definitions) and the hand-written tool        *)
(* definition export.                                                      *)
(*                                                                         *)
(* Conventions.                                                            *)
(*  - A JSON / Python value is a record [t, n, s]: t is the type tag       *)
(*    ("absent", "null", "int", "float", "str"), n the number and the      *)
(*    text in s.  A float carries its value in tenths (n = 25 is 2.5).     *)
(*  - Temperatures of a response are integers in tenths of a degree, so    *)
(*    18 + i * 0.5 is 180 + i * 5 and 25 + i * 0.7 is 250 + i * 7.         *)
(***************************************************************************)
EXTENDS Integers, Sequences, FiniteSets, TLC

(* ---------------------------------------------------------------------- *)
(* Bounds of the model                                                     *)
(* ---------------------------------------------------------------------- *)
\* the integers offered as a raw "days" argument are -NegDays .. DaysHi
NegDays == 1
DaysHi == 9
\* number of call slots the runtime serves concurrently (ConcSpec)
MaxCalls == 2
\* largest "days" offered to the concurrent specification
ConcDaysHi == 2

(* ---------------------------------------------------------------------- *)
(* Values                                                                  *)
(* ---------------------------------------------------------------------- *)
Absent == [t |-> "absent", n |-> 0, s |-> ""]
None == [t |-> "null", n |-> 0, s |-> ""]
IntV(k) == [t |-> "int", n |-> k, s |-> ""]
FloatV(tenths) == [t |-> "float", n |-> tenths, s |-> ""]
StrV(x) == [t |-> "str", n |-> 0, s |-> x]

\* Python truthiness of an Optional[str] value: None and "" are falsy
Truthy(v) == v.t = "str" /\ v.s # ""

Digits == <<"0", "1", "2", "3", "4", "5", "6", "7", "8", "9">>

\* str(n) as the f-string "{27+i}" formats an integer: plain decimal, no padding
RECURSIVE FormatNat(_)
FormatNat(n) ==
    IF n < 10 THEN Digits[n + 1]
    ELSE FormatNat(n \div 10) \o Digits[(n % 10) + 1]

FormatInt(n) == IF n < 0 THEN "-" \o FormatNat(0 - n) ELSE FormatNat(n)

\* the integers a raw text can denote in this model
ParseRange == (0 - NegDays - 1) .. (DaysHi + 1)

\* pydantic's lax str -> int: the text must be a decimal integer numeral
IsNumeral(x) == \E k \in ParseRange : FormatInt(k) = x
ParseInt(x) == CHOOSE k \in ParseRange : FormatInt(k) = x

(* ---------------------------------------------------------------------- *)
(* Input models (pydantic, lax mode)                                       *)
(* ---------------------------------------------------------------------- *)
\* Field(3, ge=1, le=7) of WeatherRequest.days
DaysDefault == 3
DaysGe == 1
DaysLe == 7

\* ValidateStr with the field declared Field("") instead of Field(...)
ValidateStr_mut(v) ==
    IF v.t = "str" THEN [ok |-> TRUE, value |-> v.s]
    ELSE IF v.t = "absent" THEN [ok |-> TRUE, value |-> ""]
    ELSE [ok |-> FALSE, value |-> ""]

\* a required `str` field: Field(...)
ValidateStr(v) ==
    IF v.t = "str" THEN [ok |-> TRUE, value |-> v.s]
    ELSE [ok |-> FALSE, value |-> ""]

\* an Optional[str] field with Field(None, ...)
ValidateOptionalStr(v) ==
    IF v.t = "absent" \/ v.t = "null" THEN [ok |-> TRUE, value |-> None]
    ELSE IF v.t = "str" THEN [ok |-> TRUE, value |-> v]
    ELSE [ok |-> FALSE, value |-> None]

\* the ge / le constraints of an `int` field, applied after coercion
CheckRange(k) ==
    IF k >= DaysGe /\ k <= DaysLe THEN [ok |-> TRUE, value |-> k]
    ELSE [ok |-> FALSE, value |-> k]

\* ValidateDays with the default written as Field(1, ...)
ValidateDays_mut(v) ==
    IF v.t = "absent" THEN [ok |-> TRUE, value |-> DaysGe]
    ELSE IF v.t = "int" THEN CheckRange(v.n)
    ELSE IF v.t = "float" /\ v.n % 10 = 0 THEN CheckRange(v.n \div 10)
    ELSE IF v.t = "str" /\ IsNumeral(v.s) THEN CheckRange(ParseInt(v.s))
    ELSE [ok |-> FALSE, value |-> 0]

\* days: int = Field(3, ge=1, le=7).  Lax coercion to int: an int is taken as
\* it is, a float only when its fractional part is zero, a text only when it
\* is a decimal integer numeral; None is not an int.
ValidateDays(v) ==
    IF v.t = "absent" THEN [ok |-> TRUE, value |-> DaysDefault]
    ELSE IF v.t = "int" THEN CheckRange(v.n)
    ELSE IF v.t = "float" /\ v.n % 10 = 0 THEN CheckRange(v.n \div 10)
    ELSE IF v.t = "str" /\ IsNumeral(v.s) THEN CheckRange(ParseInt(v.s))
    ELSE [ok |-> FALSE, value |-> 0]

\* WeatherRequest(**raw): the validated record, or the set of offending fields
WeatherRequest(raw) ==
    LET city == ValidateStr(raw.city)
        country_code == ValidateOptionalStr(raw.country_code)
        days == ValidateDays(raw.days)
        api_key == ValidateOptionalStr(raw.api_key)
        errors == {f \in {"city", "country_code", "days", "api_key"} :
                      \/ f = "city" /\ ~city.ok
                      \/ f = "country_code" /\ ~country_code.ok
                      \/ f = "days" /\ ~days.ok
                      \/ f = "api_key" /\ ~api_key.ok}
    IN [ok |-> errors = {},
        errors |-> errors,
        value |-> [city |-> city.value,
                   country_code |-> country_code.value,
                   days |-> days.value,
                   api_key |-> api_key.value]]

\* AirQualityRequest(**raw); the model has no `days` field
AirQualityRequest(raw) ==
    LET city == ValidateStr(raw.city)
        country_code == ValidateOptionalStr(raw.country_code)
        api_key == ValidateOptionalStr(raw.api_key)
        errors == {f \in {"city", "country_code", "api_key"} :
                      \/ f = "city" /\ ~city.ok
                      \/ f = "country_code" /\ ~country_code.ok
                      \/ f = "api_key" /\ ~api_key.ok}
    IN [ok |-> errors = {},
        errors |-> errors,
        value |-> [city |-> city.value,
                   country_code |-> country_code.value,
                   api_key |-> api_key.value]]

\* a raw payload that carries every field of both input models
FullRaw ==
    [city |-> StrV("Seoul"), country_code |-> StrV("UK"),
     days |-> IntV(DaysDefault), api_key |-> StrV("k1")]

\* the required fields of an input model: those whose absence alone makes
\* the model reject an otherwise valid payload
WeatherRequestRequired ==
    {f \in DOMAIN FullRaw : f \in WeatherRequest([FullRaw EXCEPT ![f] = Absent]).errors}
AirQualityRequestRequired ==
    {f \in DOMAIN FullRaw : f \in AirQualityRequest([FullRaw EXCEPT ![f] = Absent]).errors}
\* health() takes no argument
HealthRequired == {}

(* ---------------------------------------------------------------------- *)
(* Tool handlers                                                           *)
(* ---------------------------------------------------------------------- *)
\* `x or y` on an Optional[str] x and a text y
OrElse(v, y) == IF Truthy(v) THEN v.s ELSE y

\* health()
health == [status |-> "ok"]

\* forecast_day with the date rolled over into June after May 31
forecast_day_mut(i) ==
    [date |-> IF 27 + i > 31
              THEN "2025-06-0" \o FormatInt(27 + i - 31)
              ELSE "2025-05-" \o FormatInt(27 + i),
     min_temp |-> 180 + i * 5,
     max_temp |-> 250 + i * 7,
     condition |-> IF i % 2 = 0 THEN "Sunny" ELSE "Cloudy"]

\* one iteration of the demo-data loop of get_weather
forecast_day(i) ==
    [date |-> "2025-05-" \o FormatInt(27 + i),
     min_temp |-> 180 + i * 5,
     max_temp |-> 250 + i * 7,
     condition |-> IF i % 2 = 0 THEN "Sunny" ELSE "Cloudy"]

\* forecast_days with the loop written as range(days + 1)
forecast_days_mut(days) == [k \in 1 .. days + 1 |-> forecast_day(k - 1)]

\* for i in range(days): forecast_days.append({...})
forecast_days(days) == [k \in 1 .. days |-> forecast_day(k - 1)]

\* no statement of either try block can raise on a validated request, so the
\* except branch is never taken
BodyRaises == FALSE

\* get_weather(request), with the module-level default key it reads
get_weather(request, default_key) ==
    LET api_key == OrElse(request.api_key, default_key)
        result == [city |-> request.city,
                   country |-> OrElse(request.country_code, "US"),
                   current_temp |-> 235,
                   current_condition |-> "Sunny",
                   forecast |-> forecast_days(request.days)]
    IN IF BodyRaises THEN [error |-> "Exception"] ELSE result

\* get_air_quality with the index depending on whose key is used
get_air_quality_mut(request, default_key) ==
    LET api_key == OrElse(request.api_key, default_key)
        result == [city |-> request.city,
                   country |-> OrElse(request.country_code, "US"),
                   aqi |-> IF api_key = default_key THEN 45 ELSE 46,
                   quality_level |-> "Good",
                   pollutants |-> [pm2_5 |-> 125, pm10 |-> 253, o3 |-> 682,
                                   no2 |-> 157, so2 |-> 52, co |-> 8],
                   health_recommendations |->
                       "Air quality is good. Suitable for outdoor activities."]
    IN IF BodyRaises THEN [error |-> "Exception"] ELSE result

\* get_air_quality(request)
get_air_quality(request, default_key) ==
    LET api_key == OrElse(request.api_key, default_key)
        result == [city |-> request.city,
                   country |-> OrElse(request.country_code, "US"),
                   aqi |-> 45,
                   quality_level |-> "Good",
                   pollutants |-> [pm2_5 |-> 125, pm10 |-> 253, o3 |-> 682,
                                   no2 |-> 157, so2 |-> 52, co |-> 8],
                   health_recommendations |->
                       "Air quality is good. Suitable for outdoor activities."]
    IN IF BodyRaises THEN [error |-> "Exception"] ELSE result

\* generate_tool_definitions with days listed as required for get_weather
generate_tool_definitions_mut ==
    << [name |-> "health", required |-> << >>],
       [name |-> "get_weather", required |-> <<"city", "days">>],
       [name |-> "get_air_quality", required |-> <<"city">>] >>

\* generate_tool_definitions(): name and declared "required" list of each tool
generate_tool_definitions ==
    << [name |-> "health", required |-> << >>],
       [name |-> "get_weather", required |-> <<"city">>],
       [name |-> "get_air_quality", required |-> <<"city">>] >>

\* get_tool_definitions()
get_tool_definitions == [tools |-> generate_tool_definitions]

(* ---------------------------------------------------------------------- *)
(* Arguments offered by callers                                            *)
(* ---------------------------------------------------------------------- *)
RawCities == {Absent, None, StrV(""), StrV("Seoul")}
RawCountryCodes == {Absent, StrV(""), StrV("UK")}
RawApiKeys == {Absent, StrV("k1")}
RawDays ==
    {Absent, None, StrV("3"), StrV("8"), StrV("abc"),
     FloatV(25), FloatV(30)}
    \cup {IntV(k) : k \in (0 - NegDays) .. DaysHi}

WeatherArgs ==
    [city : RawCities, country_code : RawCountryCodes,
     days : RawDays, api_key : RawApiKeys]
AirQualityArgs ==
    [city : RawCities, country_code : RawCountryCodes,
     days : {Absent}, api_key : RawApiKeys]
NoArgs == [city |-> Absent, country_code |-> Absent, days |-> Absent, api_key |-> Absent]

\* values WEATHER_API_KEY may have in the environment at import; unset gives
\* the literal "demo_api_key"
StartupKeys == {"demo_api_key", "env_key"}

(* ---------------------------------------------------------------------- *)
(* State                                                                   *)
(* ---------------------------------------------------------------------- *)
VARIABLES
    DEFAULT_WEATHER_API_KEY,  \* module-level default credential
    last,                     \* the most recent tool call served one at a time
    calls                     \* the call slots of the concurrent runtime

vars == <<DEFAULT_WEATHER_API_KEY, last, calls>>

NoPayload == << >>

\* what the runtime hands back for one call: the handler's payload, or a
\* validation failure naming the offending fields when the handler never ran
Rejected(tool, args, errors) ==
    [tool |-> tool, args |-> args, status |-> "rejected", ran |-> FALSE,
     errors |-> errors, payload |-> NoPayload]
Returned(tool, args, payload) ==
    [tool |-> tool, args |-> args, status |-> "returned", ran |-> TRUE,
     errors |-> {}, payload |-> payload]

\* the runtime validates the arguments against the handler's input model and
\* calls the handler only with a validated request
Dispatch_get_weather(args, default_key) ==
    LET request == WeatherRequest(args)
    IN IF request.ok
       THEN Returned("get_weather", args, get_weather(request.value, default_key))
       ELSE Rejected("get_weather", args, request.errors)

Dispatch_get_air_quality(args, default_key) ==
    LET request == AirQualityRequest(args)
    IN IF request.ok
       THEN Returned("get_air_quality", args, get_air_quality(request.value, default_key))
       ELSE Rejected("get_air_quality", args, request.errors)

\* the request of a slot that holds none
NoRequest == [city |-> "", country_code |-> None, days |-> 0, api_key |-> None]

\* a free call slot: no tool, and the locals of no handler frame
IdleSlot ==
    [pc |-> "idle", tool |-> "none", args |-> NoArgs, request |-> NoRequest,
     api_key |-> "", i |-> 0, forecast_days |-> << >>,
     errors |-> {}, payload |-> NoPayload]

Init ==
    /\ DEFAULT_WEATHER_API_KEY \in StartupKeys
    /\ last = [tool |-> "none", args |-> NoArgs, status |-> "none", ran |-> FALSE,
               errors |-> {}, payload |-> NoPayload]
    /\ calls = [c \in 1 .. MaxCalls |-> IdleSlot]

(* ---------------------------------------------------------------------- *)
(* Tool calls served one at a time                                         *)
(* ---------------------------------------------------------------------- *)
Call_health ==
    /\ last' = Returned("health", NoArgs, health)
    /\ UNCHANGED <<DEFAULT_WEATHER_API_KEY, calls>>

Call_get_weather ==
    /\ \E args \in WeatherArgs :
           last' = Dispatch_get_weather(args, DEFAULT_WEATHER_API_KEY)
    /\ UNCHANGED <<DEFAULT_WEATHER_API_KEY, calls>>

Call_get_air_quality ==
    /\ \E args \in AirQualityArgs :
           last' = Dispatch_get_air_quality(args, DEFAULT_WEATHER_API_KEY)
    /\ UNCHANGED <<DEFAULT_WEATHER_API_KEY, calls>>

Call_get_tool_definitions ==
    /\ last' = Returned("get_tool_definitions", NoArgs, get_tool_definitions)
    /\ UNCHANGED <<DEFAULT_WEATHER_API_KEY, calls>>

Next ==
    \/ Call_health
    \/ Call_get_weather
    \/ Call_get_air_quality
    \/ Call_get_tool_definitions

Spec == Init /\ [][Next]_vars

(* ---------------------------------------------------------------------- *)
(* Properties of the tools served one at a time (Spec)                     *)
(* ---------------------------------------------------------------------- *)
IsReturned(call, tool) == call.tool = tool /\ call.status = "returned"

WeatherKeys == {"city", "country", "current_temp", "current_condition", "forecast"}
AirQualityKeys ==
    {"city", "country", "aqi", "quality_level", "pollutants", "health_recommendations"}

\* C1: an accepted get_weather request with days = d in 1..7 returns exactly d
\* forecast entries, and entry i has min_temp = 18 + 0.5 i, max_temp =
\* 25 + 0.7 i (both in tenths here) and condition "Sunny" for even i,
\* "Cloudy" for odd i.
C1_ForecastEntries ==
    (IsReturned(last, "get_weather") /\ last.args.days.t = "int") =>
        LET d == last.args.days.n
            forecast == last.payload.forecast
        IN /\ d \in 1 .. 7
           /\ Len(forecast) = d
           /\ \A i \in 0 .. d - 1 :
                  /\ forecast[i + 1].min_temp = 180 + 5 * i
                  /\ forecast[i + 1].max_temp = 250 + 7 * i
                  /\ forecast[i + 1].condition =
                         (IF i % 2 = 0 THEN "Sunny" ELSE "Cloudy")

C1_Witness ==
    /\ IsReturned(last, "get_weather")
    /\ last.args.days = IntV(7)
    /\ Len(last.payload.forecast) = 7
    /\ last.payload.forecast[7].max_temp = 292

\* a raw value that is an integer number: an int, or a float without
\* fractional part
IsIntegerNumber(v) == v.t = "int" \/ (v.t = "float" /\ v.n % 10 = 0)
IntegerOf(v) == IF v.t = "int" THEN v.n ELSE v.n \div 10

\* C2 (as claimed): a get_weather call whose days is an integer outside 1..7
\* or is not an integer is rejected with a validation error before the
\* handler body runs, and no forecast is synthesized for it.
C2_BadDaysRejected ==
    (/\ last.tool = "get_weather"
     /\ last.args.days.t # "absent"
     /\ \/ ~IsIntegerNumber(last.args.days)
        \/ IntegerOf(last.args.days) \notin 1 .. 7)
        => (last.status = "rejected" /\ ~last.ran)

\* C3 (as claimed): in get_weather and get_air_quality the response's country
\* is the request's country_code whenever one is given, the empty text
\* included, and "US" only when it is absent or null.
C3_CountryEcho ==
    (IsReturned(last, "get_weather") \/ IsReturned(last, "get_air_quality")) =>
        last.payload.country =
            (IF last.args.country_code.t = "str"
             THEN last.args.country_code.s ELSE "US")

\* C4: get_air_quality is constant apart from its echoed fields: each
\* response has the fixed aqi, quality_level, pollutants and recommendation
\* and echoes its own request's city; two successive responses agree on the
\* fixed fields, and two requests that differ in api_key only get equal
\* responses.
C4_AirQualityConstant ==
    [][IsReturned(last', "get_air_quality") =>
          /\ last'.payload.city = last'.args.city.s
          /\ last'.payload.aqi = 45
          /\ last'.payload.quality_level = "Good"
          /\ IsReturned(last, "get_air_quality") =>
                 /\ last'.payload.aqi = last.payload.aqi
                 /\ last'.payload.quality_level = last.payload.quality_level
                 /\ last'.payload.pollutants = last.payload.pollutants
                 /\ last'.payload.health_recommendations =
                        last.payload.health_recommendations
                 /\ ([last'.args EXCEPT !.api_key = Absent] =
                         [last.args EXCEPT !.api_key = Absent]
                       => last'.payload = last.payload)]_vars

C4_Witness ==
    /\ IsReturned(last, "get_air_quality")
    /\ last.args.api_key = StrV("k1")
    /\ last.args.country_code = StrV("UK")
    /\ last.payload.aqi = 45

\* the set of the elements of a sequence
Range(seq) == {seq[k] : k \in DOMAIN seq}

\* C5: get_tool_definitions lists health, get_weather, get_air_quality in
\* that order, and each tool's declared "required" list is the set of fields
\* whose absence the tool's input model rejects.
C5_ToolDefinitionsNoDrift ==
    IsReturned(last, "get_tool_definitions") =>
        LET tools == last.payload.tools
        IN /\ [k \in DOMAIN tools |-> tools[k].name] =
                  <<"health", "get_weather", "get_air_quality">>
           /\ Range(tools[1].required) = HealthRequired
           /\ Range(tools[2].required) = WeatherRequestRequired
           /\ Range(tools[3].required) = AirQualityRequestRequired
           /\ WeatherRequestRequired = {"city"}
           /\ AirQualityRequestRequired = {"city"}

C5_Witness ==
    /\ IsReturned(last, "get_tool_definitions")
    /\ Len(last.payload.tools) = 3

\* C6 (as claimed): get_weather never returns a success response for a request
\* whose city is missing or is the empty text.
C6_NoCityRejected ==
    (/\ last.tool = "get_weather"
     /\ \/ last.args.city.t = "absent"
        \/ last.args.city = StrV(""))
        => (last.status = "rejected" /\ ~last.ran)

\* C6 (amended): get_weather never returns a success response for a request
\* whose city is missing: the call is rejected with a validation error
\* naming city before the handler runs.  An empty text is a present city.
C6_MissingCityRejected ==
    (last.tool = "get_weather" /\ last.args.city.t = "absent")
        => (last.status = "rejected" /\ ~last.ran /\ "city" \in last.errors)

C6_Witness ==
    /\ last.tool = "get_weather"
    /\ last.args.city.t = "absent"
    /\ last.args.days = IntV(2)
    /\ last.errors = {"city"}

\* C8: a get_weather request that omits days gets exactly 3 forecast entries,
\* and the same response as the same request with days = 3 given explicitly.
C8_DefaultDays ==
    [][(IsReturned(last', "get_weather") /\ last'.args.days = Absent) =>
          /\ Len(last'.payload.forecast) = 3
          /\ (/\ IsReturned(last, "get_weather")
              /\ last.args = [last'.args EXCEPT !.days = IntV(3)])
                 => last'.payload = last.payload]_vars

C8_Witness ==
    /\ IsReturned(last, "get_weather")
    /\ last.args.days = Absent
    /\ Len(last.payload.forecast) = 3

\* the dates the claim spells out: "2025-05-" followed by the numeral of 27 + i
ClaimedDates ==
    <<"2025-05-27", "2025-05-28", "2025-05-29", "2025-05-30",
      "2025-05-31", "2025-05-32", "2025-05-33">>

\* C9: in every get_weather success response entry i is dated "2025-05-"
\* followed by the decimal numeral of 27 + i, without month rollover: with
\* days = 7 the last entry is dated "2025-05-33", and with days >= 6 some
\* entry has a day of month above 31.
C9_DatesNoRollover ==
    IsReturned(last, "get_weather") =>
        LET forecast == last.payload.forecast
        IN /\ \A k \in DOMAIN forecast : forecast[k].date = ClaimedDates[k]
           /\ Len(forecast) = 7 => forecast[7].date = "2025-05-33"
           /\ Len(forecast) >= 6 => forecast[6].date = "2025-05-32"

C9_Witness ==
    /\ IsReturned(last, "get_weather")
    /\ last.args.days = IntV(7)
    /\ last.payload.forecast[7].date = "2025-05-33"

(* ---------------------------------------------------------------------- *)
(* Concurrent calls: the runtime interleaves handler invocations           *)
(* ---------------------------------------------------------------------- *)
ConcWeatherArgs ==
    [city : {StrV("Seoul")}, country_code : {StrV("UK")},
     days : {IntV(k) : k \in 0 .. ConcDaysHi}, api_key : RawApiKeys]
ConcAirQualityArgs ==
    [city : {StrV("Paris")}, country_code : {Absent, StrV("UK")},
     days : {Absent}, api_key : RawApiKeys]

Slots == 1 .. MaxCalls

\* the runtime receives a call, validates its arguments and either rejects
\* it or enters the handler with the validated request
Invoke_health(c) ==
    /\ calls[c].pc = "idle"
    /\ calls' = [calls EXCEPT ![c] = [IdleSlot EXCEPT !.pc = "health", !.tool = "health"]]
    /\ UNCHANGED <<DEFAULT_WEATHER_API_KEY, last>>

Invoke_get_tool_definitions(c) ==
    /\ calls[c].pc = "idle"
    /\ calls' = [calls EXCEPT ![c] =
                    [IdleSlot EXCEPT !.pc = "tool_definitions",
                                     !.tool = "get_tool_definitions"]]
    /\ UNCHANGED <<DEFAULT_WEATHER_API_KEY, last>>

Invoke_get_weather(c) ==
    /\ calls[c].pc = "idle"
    /\ \E args \in ConcWeatherArgs :
           LET request == WeatherRequest(args)
           IN calls' = [calls EXCEPT ![c] =
                  IF request.ok
                  THEN [IdleSlot EXCEPT !.pc = "resolve_key", !.tool = "get_weather",
                                        !.args = args, !.request = request.value]
                  ELSE [IdleSlot EXCEPT !.pc = "rejected", !.tool = "get_weather",
                                        !.args = args, !.errors = request.errors]]
    /\ UNCHANGED <<DEFAULT_WEATHER_API_KEY, last>>

Invoke_get_air_quality(c) ==
    /\ calls[c].pc = "idle"
    /\ \E args \in ConcAirQualityArgs :
           LET request == AirQualityRequest(args)
           IN calls' = [calls EXCEPT ![c] =
                  IF request.ok
                  THEN [IdleSlot EXCEPT !.pc = "resolve_key", !.tool = "get_air_quality",
                                        !.args = args, !.request = request.value]
                  ELSE [IdleSlot EXCEPT !.pc = "rejected", !.tool = "get_air_quality",
                                        !.args = args, !.errors = request.errors]]
    /\ UNCHANGED <<DEFAULT_WEATHER_API_KEY, last>>

\* return {"status": "ok"}
Return_health(c) ==
    /\ calls[c].pc = "health"
    /\ calls' = [calls EXCEPT ![c].pc = "done", ![c].payload = [status |-> "ok"]]
    /\ UNCHANGED <<DEFAULT_WEATHER_API_KEY, last>>

\* return {"tools": generate_tool_definitions()}
Return_tool_definitions(c) ==
    /\ calls[c].pc = "tool_definitions"
    /\ calls' = [calls EXCEPT ![c].pc = "done",
                              ![c].payload = [tools |-> generate_tool_definitions]]
    /\ UNCHANGED <<DEFAULT_WEATHER_API_KEY, last>>

\* ResolveKey with the resolved key stored back into the module-level default
ResolveKey_mut(c) ==
    /\ calls[c].pc = "resolve_key"
    /\ calls' = [calls EXCEPT
                    ![c].api_key = OrElse(calls[c].request.api_key, DEFAULT_WEATHER_API_KEY),
                    ![c].forecast_days = << >>,
                    ![c].i = 0,
                    ![c].pc = IF calls[c].tool = "get_weather" THEN "loop" ELSE "result"]
    /\ DEFAULT_WEATHER_API_KEY' = OrElse(calls[c].request.api_key, DEFAULT_WEATHER_API_KEY)
    /\ UNCHANGED last

\* api_key = request.api_key or DEFAULT_WEATHER_API_KEY; get_weather then
\* starts with forecast_days = []
ResolveKey(c) ==
    /\ calls[c].pc = "resolve_key"
    /\ calls' = [calls EXCEPT
                    ![c].api_key = OrElse(calls[c].request.api_key, DEFAULT_WEATHER_API_KEY),
                    ![c].forecast_days = << >>,
                    ![c].i = 0,
                    ![c].pc = IF calls[c].tool = "get_weather" THEN "loop" ELSE "result"]
    /\ UNCHANGED <<DEFAULT_WEATHER_API_KEY, last>>

\* one iteration of `for i in range(request.days)`, or its exit
LoopStep(c) ==
    /\ calls[c].pc = "loop"
    /\ IF calls[c].i < calls[c].request.days
       THEN calls' = [calls EXCEPT
                         ![c].forecast_days = Append(@, forecast_day(calls[c].i)),
                         ![c].i = @ + 1]
       ELSE calls' = [calls EXCEPT ![c].pc = "result"]
    /\ UNCHANGED <<DEFAULT_WEATHER_API_KEY, last>>

\* ReturnResult with the two-key failure payload of the disabled upstream call
ReturnResult_mut(c) ==
    /\ calls[c].pc = "result"
    /\ calls' = [calls EXCEPT
           ![c].pc = "done",
           ![c].api_key = "",
           ![c].i = 0,
           ![c].forecast_days = << >>,
           ![c].payload = [error |-> "Weather service error", details |-> ""]]
    /\ UNCHANGED <<DEFAULT_WEATHER_API_KEY, last>>

\* result = {...}; return result, the frame's locals die with it
ReturnResult(c) ==
    /\ calls[c].pc = "result"
    /\ calls' = [calls EXCEPT
           ![c].pc = "done",
           ![c].api_key = "",
           ![c].i = 0,
           ![c].forecast_days = << >>,
           ![c].payload =
               IF calls[c].tool = "get_weather"
               THEN [city |-> calls[c].request.city,
                     country |-> OrElse(calls[c].request.country_code, "US"),
                     current_temp |-> 235,
                     current_condition |-> "Sunny",
                     forecast |-> calls[c].forecast_days]
               ELSE [city |-> calls[c].request.city,
                     country |-> OrElse(calls[c].request.country_code, "US"),
                     aqi |-> 45,
                     quality_level |-> "Good",
                     pollutants |-> [pm2_5 |-> 125, pm10 |-> 253, o3 |-> 682,
                                     no2 |-> 157, so2 |-> 52, co |-> 8],
                     health_recommendations |->
                         "Air quality is good. Suitable for outdoor activities."]]
    /\ UNCHANGED <<DEFAULT_WEATHER_API_KEY, last>>

\* the runtime sends the response (or the validation failure) and the
\* request / response cycle is over
Respond(c) ==
    /\ calls[c].pc \in {"done", "rejected"}
    /\ calls' = [calls EXCEPT ![c] = IdleSlot]
    /\ UNCHANGED <<DEFAULT_WEATHER_API_KEY, last>>

ConcNext ==
    \E c \in Slots :
        \/ Invoke_health(c)
        \/ Invoke_get_tool_definitions(c)
        \/ Invoke_get_weather(c)
        \/ Invoke_get_air_quality(c)
        \/ Return_health(c)
        \/ Return_tool_definitions(c)
        \/ ResolveKey(c)
        \/ LoopStep(c)
        \/ ReturnResult(c)
        \/ Respond(c)

ConcSpec == Init /\ [][ConcNext]_vars
\* the next statement of the handler frame of slot c
HandlerStep(c) ==
    \/ Return_health(c)
    \/ Return_tool_definitions(c)
    \/ ResolveKey(c)
    \/ LoopStep(c)
    \/ ReturnResult(c)

(* ---------------------------------------------------------------------- *)
(* Properties of concurrent calls                                          *)
(* ---------------------------------------------------------------------- *)
InHandler(c) == calls[c].pc \in {"resolve_key", "loop", "result"}

\* the statements a handler frame has yet to execute before it has returned
StepsLeft(slot) ==
    IF slot.pc = "resolve_key"
    THEN (IF slot.tool = "get_weather" THEN slot.request.days + 3 ELSE 2)
    ELSE IF slot.pc = "loop" THEN slot.request.days - slot.i + 2
    ELSE IF slot.pc = "result" THEN 1
    ELSE 0

\* C7: a get_weather or get_air_quality invocation that reaches the handler
\* terminates by returning a payload and never raises: while it has not
\* returned its next statement can always execute, and each statement it
\* executes brings it strictly nearer to its return.  The payload returned
\* has either the tool's full key set and no "error" key, or the single key
\* "error", never both.
C7_ReturnsPayload ==
    /\ [](\A c \in Slots :
            InHandler(c) => (ENABLED HandlerStep(c) /\ StepsLeft(calls[c]) > 0))
    /\ [][\A c \in Slots :
            (InHandler(c) /\ calls'[c] # calls[c]) =>
                /\ StepsLeft(calls'[c]) < StepsLeft(calls[c])
                /\ calls'[c].pc \in {"loop", "result", "done"}]_vars
    /\ [](\A c \in Slots :
            (calls[c].pc = "done" /\ calls[c].tool \in {"get_weather", "get_air_quality"}) =>
                LET keys == DOMAIN calls[c].payload
                    full == IF calls[c].tool = "get_weather"
                            THEN WeatherKeys ELSE AirQualityKeys
                    success == keys = full /\ "error" \notin keys
                    failure == keys = {"error"}
                IN (success \/ failure) /\ ~(success /\ failure))

C7_Witness ==
    \E c \in Slots :
        /\ calls[c].pc = "done"
        /\ calls[c].tool = "get_weather"
        /\ DOMAIN calls[c].payload = WeatherKeys
        /\ \E d \in Slots : InHandler(d)

\* the response of a call served alone on the same arguments, the default
\* credential being key
RunAlone(tool, args, key) ==
    IF tool = "health" THEN health
    ELSE IF tool = "get_tool_definitions" THEN get_tool_definitions
    ELSE IF tool = "get_weather" THEN Dispatch_get_weather(args, key).payload
    ELSE Dispatch_get_air_quality(args, key).payload

\* C10: under any interleaving of health, get_weather, get_air_quality and
\* get_tool_definitions invocations, each response equals the response of
\* the same call run alone (whatever its api_key and the default credential),
\* the default credential keeps its startup value, and a step of one
\* invocation changes the state of no other invocation.
C10_Isolation ==
    /\ [](\A c \in Slots :
            calls[c].pc = "done" =>
                \A key \in StartupKeys, api_key \in RawApiKeys :
                    calls[c].payload =
                        RunAlone(calls[c].tool,
                                 [calls[c].args EXCEPT !.api_key = api_key], key))
    /\ [][/\ DEFAULT_WEATHER_API_KEY' = DEFAULT_WEATHER_API_KEY
          /\ \A c, d \in Slots :
                 (calls'[c] # calls[c] /\ d # c) => calls'[d] = calls[d]]_vars

C10_Witness ==
    /\ calls[1].pc = "done"
    /\ calls[1].tool = "get_weather"
    /\ calls[1].args.days = IntV(2)
    /\ calls[2].pc = "loop"
    /\ calls[2].i = 1

====
